---- MODULE Spec2Model ----
(***************************************************************************)
(* PDF TOC editor (src/main.py): the outline tree of a QTreeWidget, the    *)
(* flat <-> tree conversion, the page parser and the undo/redo log.        *)
(*                                                                         *)
(* Representation.                                                         *)
(*   - a text is a sequence of one-character strings, <<"1","-","2">>;     *)
(*   - a JSON scalar is a tagged record: JInt(n) or JStr(text);            *)
(*   - a tree item is [title, text, children]: text is the page column as  *)
(*     displayed, children the ordered child items; the tree is the        *)
(*     sequence of its top-level items;                                    *)
(*   - an item is named by its path, the 1-based child positions from the  *)
(*     top-level list (Python/Qt indices are 0-based: position = index+1); *)
(*     the empty path <<>> stands for None;                                *)
(*   - a flat entry is <<JInt(level), title, page>>.                       *)
(***************************************************************************)
EXTENDS Integers, Sequences, FiniteSets, TLC

\* the editor: tree, its current item, the two history stacks,
\* the restore guard, the open document
VARIABLES tree, cur, undo_stack, redo_stack, is_restoring, pdf_path, doc
\* how many handlers have run in this session
VARIABLES steps
\* the last handler run: its name, its input, how it ended, the outline it
\* handed to the PDF service (save_pdf, save_pdf_as), and where the converter
\* put each entry (populate_tree_from_toc run alone)
VARIABLES op, arg, res, py_toc, place

vars == <<tree, cur, undo_stack, redo_stack, is_restoring, pdf_path, doc,
          steps, op, arg, res, py_toc, place>>

(***************************************************************************)
(* Bounds of the model.                                                    *)
(***************************************************************************)
\* most items the tree holds
MaxNodes == 3
\* most handlers run in one session
MaxSteps == 4
\* longest imported list
MaxImportLen == 2
\* longest flat sequence given to the converter alone
MaxConvLen == 5
\* deepest level in a flat sequence given to the converter alone
MaxConvLevel == 4
\* longest text typed into a page field, the examples aside
MaxTextLen == 4

(***************************************************************************)
(* JSON values.                                                            *)
(***************************************************************************)
JInt(n) == [k |-> "int", n |-> n, s |-> <<>>]
JStr(t) == [k |-> "str", n |-> 0, s |-> t]
\* a top-level JSON value: a list of entries, or a number
JList(es) == [k |-> "list", n |-> 0, items |-> es]
JNum(n) == [k |-> "int", n |-> n, items |-> <<>>]

(***************************************************************************)
(* Python text primitives used by TocItemWidget.page.                      *)
(***************************************************************************)
Digits == <<"0", "1", "2", "3", "4", "5", "6", "7", "8", "9">>
IsDigit(c) == \E i \in 1..10 : Digits[i] = c
DigitVal(c) == (CHOOSE i \in 1..10 : Digits[i] = c) - 1

RECURSIVE lstrip(_)
lstrip(t) == IF t # <<>> /\ Head(t) = " " THEN lstrip(Tail(t)) ELSE t

RECURSIVE rstrip(_)
rstrip(t) ==
    IF t # <<>> /\ t[Len(t)] = " " THEN rstrip(SubSeq(t, 1, Len(t) - 1)) ELSE t

\* str.strip()
strip(t) == rstrip(lstrip(t))

\* "-" in text
Contains(t, c) == \E i \in 1..Len(t) : t[i] = c

\* position of the first sep in t
Find(t, sep) ==
    CHOOSE j \in 1..Len(t) : t[j] = sep /\ \A h \in 1..(j - 1) : t[h] # sep

\* str.split(sep)
RECURSIVE split(_, _)
split(t, sep) ==
    IF ~Contains(t, sep) THEN <<t>>
    ELSE <<SubSeq(t, 1, Find(t, sep) - 1)>>
         \o split(SubSeq(t, Find(t, sep) + 1, Len(t)), sep)

RECURSIVE DigitsVal(_)
DigitsVal(t) ==
    IF t = <<>> THEN 0
    ELSE 10 * DigitsVal(SubSeq(t, 1, Len(t) - 1)) + DigitVal(t[Len(t)])

\* the digits d after an optional sign: [ok, n]; ok = FALSE stands for
\* ValueError
signed_digits(negative, d) ==
    IF d # <<>> /\ \A i \in 1..Len(d) : IsDigit(d[i])
    THEN [ok |-> TRUE, n |-> IF negative THEN 0 - DigitsVal(d) ELSE DigitsVal(d)]
    ELSE [ok |-> FALSE, n |-> 0]

int_of_stripped(u) ==
    IF u # <<>> /\ Head(u) \in {"+", "-"}
    THEN signed_digits(Head(u) = "-", Tail(u))
    ELSE signed_digits(FALSE, u)

\* int(text): surrounding blanks, an optional sign, then one or more digits
py_int(t) == int_of_stripped(strip(t))

RECURSIVE NatStr(_)
NatStr(n) ==
    IF n < 10 THEN <<Digits[n + 1]>>
    ELSE NatStr(n \div 10) \o <<Digits[(n % 10) + 1]>>

\* str(n) of an integer
IntStr(n) == IF n < 0 THEN <<"-">> \o NatStr(0 - n) ELSE NatStr(n)

\* str(page) of a JSON scalar
py_str(j) == IF j.k = "int" THEN IntStr(j.n) ELSE j.s

(***************************************************************************)
(* TocItemWidget.                                                          *)
(***************************************************************************)
\* TocItemWidget(title, page): the page column holds str(page)
TocItemWidget(title, pg) == [title |-> title, text |-> py_str(pg), children |-> <<>>]

\* start, end = map(int, parts); return f"{start}-{end}"; any exception
\* (a part that is no integer, more or fewer than two parts) gives 1
range_of_ints(n, a, b) ==
    IF n = 2 /\ a.ok /\ b.ok
    THEN JStr(IntStr(a.n) \o <<"-">> \o IntStr(b.n))
    ELSE JInt(1)

range_of_parts(parts) ==
    range_of_ints(Len(parts), py_int(parts[1]),
                  IF Len(parts) >= 2 THEN py_int(parts[2]) ELSE [ok |-> FALSE, n |-> 0])

\* the integer branch with "return 0" in its except clause
int_or_0(a) == IF a.ok THEN JInt(a.n) ELSE JInt(0)

\* return int(text); an exception gives 1
int_or_1(a) == IF a.ok THEN JInt(a.n) ELSE JInt(1)

page_of_stripped(text) ==
    IF Contains(text, "-") THEN range_of_parts(split(text, "-"))
    ELSE int_or_1(py_int(text))

\* TocItemWidget.page(): the page column read back
page(text1) == page_of_stripped(strip(text1))

(***************************************************************************)
(* The item tree of the QTreeWidget.                                       *)
(***************************************************************************)
RECURSIVE NodeAt(_, _)
NodeAt(f, p) ==
    IF Len(p) = 1 THEN f[p[1]] ELSE NodeAt(f[p[1]].children, Tail(p))

\* the child list of the item at p (the top-level list for p = <<>>)
ChildrenAt(f, p) == IF p = <<>> THEN f ELSE NodeAt(f, p).children

\* item.parent(): <<>> for a top-level item
ParentOf(p) == SubSeq(p, 1, Len(p) - 1)

\* position of the item among its siblings
PosOf(p) == p[Len(p)]

RECURSIVE Count(_)
Count(f) == IF f = <<>> THEN 0 ELSE 1 + Count(Head(f).children) + Count(Tail(f))

RECURSIVE PathsFrom(_, _)
PathsFrom(f, prefix) ==
    UNION { {Append(prefix, i)} \cup PathsFrom(f[i].children, Append(prefix, i))
            : i \in 1..Len(f) }

\* every item of the tree, by path
Paths(f) == PathsFrom(f, <<>>)

IsPrefix(p, q) == Len(p) <= Len(q) /\ SubSeq(q, 1, Len(p)) = p

\* insertChild / insertTopLevelItem: item becomes child number pos of p
RECURSIVE insertChild(_, _, _, _)
insertChild(f, p, pos, item) ==
    IF p = <<>>
    THEN SubSeq(f, 1, pos - 1) \o <<item>> \o SubSeq(f, pos, Len(f))
    ELSE [f EXCEPT ![Head(p)].children = insertChild(@, Tail(p), pos, item)]

\* takeChild / removeChild / takeTopLevelItem: the item at p leaves the tree
RECURSIVE takeChild(_, _)
takeChild(f, p) ==
    IF Len(p) = 1
    THEN SubSeq(f, 1, p[1] - 1) \o SubSeq(f, p[1] + 1, Len(f))
    ELSE [f EXCEPT ![Head(p)].children = takeChild(@, Tail(p))]

\* the path of item q once the item at p has left the tree (q outside p's
\* subtree): later siblings of p, and their descendants, move up one place
AfterTake(q, p) ==
    IF /\ Len(q) >= Len(p)
       /\ SubSeq(q, 1, Len(p) - 1) = ParentOf(p)
       /\ q[Len(p)] > PosOf(p)
    THEN [q EXCEPT ![Len(p)] = @ - 1]
    ELSE q

\* the path of item q once an item has been inserted as child number pos of p
AfterInsert(q, p, pos) ==
    IF Len(q) > Len(p) /\ SubSeq(q, 1, Len(p)) = p /\ q[Len(p) + 1] >= pos
    THEN [q EXCEPT ![Len(p) + 1] = @ + 1]
    ELSE q

(***************************************************************************)
(* tree_to_toc: the flat form of the tree, in pre-order.                   *)
(***************************************************************************)
RECURSIVE recurse(_, _)
recurse(items, level) ==
    IF items = <<>> THEN <<>>
    ELSE <<<<JInt(level), Head(items).title, page(Head(items).text)>>>>
         \o recurse(Head(items).children, level + 1)
         \o recurse(Tail(items), level)

tree_to_toc(f) == recurse(f, 1)

(***************************************************************************)
(* The editor's state as one record, threaded through the handlers:        *)
(* [tree, cur, undo_stack, redo_stack, is_restoring, pdf_path, doc].       *)
(* cur is tree.currentItem().                                              *)
(***************************************************************************)
None == "None"

\* PDFTocEditor.__init__
InitState ==
    [tree |-> <<>>, cur |-> <<>>, undo_stack |-> <<>>,
     redo_stack |-> <<>>, is_restoring |-> FALSE, pdf_path |-> None, doc |-> None]

Last(q) == q[Len(q)]
ButLast(q) == SubSeq(q, 1, Len(q) - 1)

\* save_undo_state: json.loads(json.dumps(toc)) copies a list of
\* [int, str, int-or-str] entries to an equal list
\* save_undo_state without the comparison with undo_stack[-1]
push_always(s, toc) ==
    [s EXCEPT !.undo_stack = Append(@, toc), !.redo_stack = <<>>]

\* save_undo_state clearing redo_stack whether or not it appends
push_clearing_redo(s, toc) ==
    IF s.undo_stack = <<>> \/ Last(s.undo_stack) # toc
    THEN [s EXCEPT !.undo_stack = Append(@, toc), !.redo_stack = <<>>]
    ELSE [s EXCEPT !.redo_stack = <<>>]

push_if_new(s, toc) ==
    IF s.undo_stack = <<>> \/ Last(s.undo_stack) # toc
    THEN [s EXCEPT !.undo_stack = Append(@, toc), !.redo_stack = <<>>]
    ELSE s

\* save_undo_state without "if self.is_restoring: return"
save_while_restoring(s) == push_if_new(s, tree_to_toc(s.tree))

save_undo_state(s) ==
    IF s.is_restoring THEN s ELSE push_if_new(s, tree_to_toc(s.tree))

\* the slots connected to the tree's change signals; Qt calls them
\* synchronously, inside the call that changes the tree
itemChanged(s) == save_undo_state(s)
rowsInserted(s) == save_undo_state(s)
rowsRemoved(s) == save_undo_state(s)

\* tree.clear(): a model reset, which emits none of the connected signals
clear(s) == [s EXCEPT !.tree = <<>>, !.cur = <<>>]

\* tree.addTopLevelItem(item), then the rowsInserted slot
addTopLevelItem(s, item) == rowsInserted([s EXCEPT !.tree = Append(@, item)])

\* parent.addChild(item) for a parent inside the tree, then the rowsInserted slot
addChild(s, p, item) ==
    rowsInserted([s EXCEPT
        !.tree = insertChild(@, p, Len(ChildrenAt(@, p)) + 1, item)])

\* insertTopLevelItem(idx, item) / parent.insertChild(idx, item), then the
\* rowsInserted slot; paths of the later siblings move down one place
insertItem(s, p, pos, item) ==
    rowsInserted([s EXCEPT
        !.tree = insertChild(@, p, pos, item),
        !.cur = AfterInsert(@, p, pos)])

\* takeTopLevelItem(idx) / parent.takeChild(idx) / parent.removeChild(item),
\* then the rowsRemoved slot.  Before the rows go, the single-selection view
\* moves a current item that is being removed to its next sibling, else its
\* previous sibling, else its parent; a current item inside the removed
\* subtree becomes None.
current_after_take(c, p, n) ==
    IF c = p
    THEN IF n = 1 THEN ParentOf(p)
         ELSE IF PosOf(p) < n THEN p
         ELSE [p EXCEPT ![Len(p)] = @ - 1]
    ELSE IF IsPrefix(p, c) THEN <<>>
    ELSE AfterTake(c, p)

takeItem(s, p) ==
    rowsRemoved([s EXCEPT
        !.tree = takeChild(@, p),
        !.cur = current_after_take(@, p, Len(ChildrenAt(s.tree, ParentOf(p))))])

\* tree.setCurrentItem(item)
setCurrentItem(s, p) == [s EXCEPT !.cur = p]

(***************************************************************************)
(* populate_tree_from_toc.  The result is [s, raised, place]: raised tells *)
(* that an exception left the function, place[i] is the path at which      *)
(* entry i was put (<<>> for a skipped entry).                             *)
(***************************************************************************)
\* "not toc"
Falsy(toc) == IF toc.k = "list" THEN toc.items = <<>> ELSE toc.n = 0

\* the body of the for loop for one entry with a numeric level: the item is
\* attached and the stack updated; yields [s, stack, ip], ip the item's path
attach_entry(s, stack, level, item) ==
    IF level <= 1 \/ ~(level - 2 < Len(stack))
    THEN \* self.tree.addTopLevelItem(item); stack = [item]
         [s |-> addTopLevelItem(s, item),
          stack |-> <<<<Len(s.tree) + 1>>>>,
          ip |-> <<Len(s.tree) + 1>>]
    ELSE \* parent = stack[parent_level_index]; parent.addChild(item)
         \* stack[level - 1:level] = [item], or stack.append(item)
         [s |-> addChild(s, stack[level - 1], item),
          stack |-> IF Len(stack) >= level
                    THEN [stack EXCEPT ![level] =
                             Append(stack[level - 1],
                                    Len(ChildrenAt(s.tree, stack[level - 1])) + 1)]
                    ELSE Append(stack,
                             Append(stack[level - 1],
                                    Len(ChildrenAt(s.tree, stack[level - 1])) + 1)),
          ip |-> Append(stack[level - 1],
                        Len(ChildrenAt(s.tree, stack[level - 1])) + 1)]

\* the for loop from entry i on; stack holds the paths of the stacked items
RECURSIVE populate_loop(_, _, _, _, _)
populate_loop(s, entries, i, stack, placed) ==
    IF i > Len(entries) THEN [s |-> s, raised |-> FALSE, place |-> placed]
    ELSE IF Len(entries[i]) < 3
    \* level, title, page = entry[:3] raises ValueError: continue
    THEN populate_loop(s, entries, i + 1, stack, Append(placed, <<>>))
    ELSE IF entries[i][1].k # "int"
    \* level <= 1 raises TypeError for a level that is no number
    THEN [s |-> s, raised |-> TRUE, place |-> placed]
    ELSE LET a == attach_entry(s, stack, entries[i][1].n,
                               TocItemWidget(entries[i][2], entries[i][3]))
         IN  populate_loop(a.s, entries, i + 1, a.stack, Append(placed, a.ip))

\* after the loop: "if not self.is_restoring: self.save_undo_state()"
populate_end(r) ==
    IF r.raised THEN r
    ELSE IF ~r.s.is_restoring THEN [r EXCEPT !.s = save_undo_state(@)]
    ELSE r

populate_tree_from_toc(s, toc) ==
    IF Falsy(toc) THEN [s |-> clear(s), raised |-> FALSE, place |-> <<>>]
    \* "for entry in toc" raises TypeError for a number
    ELSE IF toc.k # "list" THEN [s |-> clear(s), raised |-> TRUE, place |-> <<>>]
    ELSE populate_end(populate_loop(clear(s), toc.items, 1, <<>>, <<>>))

(***************************************************************************)
(* Undo / redo.                                                            *)
(***************************************************************************)
\* restore_toc_state: a snapshot is a list whose levels are numbers, so the
\* rebuild raises nothing
restore_toc_state(s, toc) ==
    [populate_tree_from_toc([s EXCEPT !.is_restoring = TRUE], JList(toc)).s
        EXCEPT !.is_restoring = FALSE]

\* current = undo_stack.pop(); redo_stack.append(current);
\* prev = undo_stack[-1]; restore_toc_state(prev)
undo_pop(s) ==
    restore_toc_state(
        [s EXCEPT !.undo_stack = ButLast(@),
                  !.redo_stack = Append(@, Last(s.undo_stack))],
        s.undo_stack[Len(s.undo_stack) - 1])

\* undo with the guard "if not self.undo_stack": the only snapshot is popped,
\* and undo_stack[-1] then raises IndexError before anything is restored
undo_to_empty(s) ==
    IF s.undo_stack = <<>> THEN s
    ELSE IF Len(s.undo_stack) = 1
    THEN [s EXCEPT !.undo_stack = <<>>,
                   !.redo_stack = Append(@, Last(s.undo_stack))]
    ELSE undo_pop(s)

undo(s) == IF Len(s.undo_stack) < 2 THEN s ELSE undo_pop(s)

\* next_state = redo_stack.pop(); undo_stack.append(next_state);
\* restore_toc_state(next_state)
redo(s) ==
    IF s.redo_stack = <<>> THEN s
    ELSE restore_toc_state(
             [s EXCEPT !.redo_stack = ButLast(@),
                       !.undo_stack = Append(@, Last(s.redo_stack))],
             Last(s.redo_stack))

(***************************************************************************)
(* The handlers.  Each yields [s, res]: the state it leaves and how it     *)
(* ended: "ok", "error" (its error dialog) or "return" (an early return).  *)
(***************************************************************************)
\* load_pdf; file is [ok, path, toc]: whether fitz.open succeeds, and the
\* outline doc.get_toc(simple=False) then returns
\* the document is open: lines 186-193
load_opened(s, file) ==
    [s |-> populate_tree_from_toc(
               clear([s EXCEPT !.pdf_path = file.path, !.doc = file.path]),
               JList(file.toc)).s,
     res |-> "ok"]

\* load_pdf with "self.pdf_path = path" moved above the try block
load_pdf_path_first(s, file) ==
    IF ~file.ok THEN [s |-> [s EXCEPT !.pdf_path = file.path], res |-> "error"]
    ELSE load_opened(s, file)

load_pdf(s, file) ==
    IF ~file.ok THEN [s |-> s, res |-> "error"] ELSE load_opened(s, file)

\* the try block of import_toc ends normally or in its except branch
import_end(r) == [s |-> r.s, res |-> IF r.raised THEN "error" ELSE "ok"]

\* import_toc; f is [kind, toc]: the dialog cancelled, the file unreadable or
\* no JSON, or the JSON value read
import_toc(s, f) ==
    IF f.kind = "cancel" THEN [s |-> s, res |-> "return"]
    ELSE IF f.kind = "unreadable" THEN [s |-> s, res |-> "error"]
    ELSE import_end(populate_tree_from_toc(s, f.toc))

\* the item goes under parent (top level for None), becomes the current
\* item, and the state is saved
add_under(s, parent, item) ==
    save_undo_state(
        setCurrentItem(
            IF parent = <<>> THEN addTopLevelItem(s, item)
            ELSE addChild(s, parent, item),
            Append(parent, Len(ChildrenAt(s.tree, parent)) + 1)))

\* add_item with "parent = sel if child else None": a sibling always goes to
\* the top level
add_item_sibling_on_top(s, child) ==
    add_under(s,
              IF s.cur = <<>> THEN <<>>
              ELSE IF child THEN s.cur ELSE <<>>,
              TocItemWidget("New Title", JInt(1)))

add_item(s, child) ==
    add_under(s,
              IF s.cur = <<>> THEN <<>>
              ELSE IF child THEN s.cur ELSE ParentOf(s.cur),
              TocItemWidget("New Title", JInt(1)))

item_depth(p) == Len(p) - 1

\* sorted(selected_items, key=item_depth, reverse=True): stable, so items of
\* one depth keep their order
RECURSIVE sorted_from(_, _)
sorted_from(items, d) ==
    IF d < 0 THEN <<>>
    ELSE SelectSeq(items, LAMBDA p : item_depth(p) = d) \o sorted_from(items, d - 1)

Deepest(items) ==
    CHOOSE d \in {item_depth(items[i]) : i \in 1..Len(items)} :
        \A i \in 1..Len(items) : item_depth(items[i]) <= d

\* the loop run over selected_items as listed, without the sort
sorted_as_selected(items) == items

sorted_deepest_first(items) ==
    IF items = <<>> THEN <<>> ELSE sorted_from(items, Deepest(items))

\* where the selected item q is once the item at p has been taken and
\* dropped: an item inside p's subtree is destroyed with it (<<>>)
follow(q, p) == IF IsPrefix(p, q) THEN <<>> ELSE AfterTake(q, p)

\* the for loop of delete_item, yielding [s, raised]; the paths of the items
\* still to go follow the removals.  item.parent() of an item destroyed with
\* an ancestor raises RuntimeError.
RECURSIVE delete_loop(_, _)
delete_loop(s, items) ==
    IF items = <<>> THEN [s |-> s, raised |-> FALSE]
    ELSE IF Head(items) = <<>> THEN [s |-> s, raised |-> TRUE]
    ELSE delete_loop(takeItem(s, Head(items)),
                     [i \in 1..(Len(items) - 1) |-> follow(items[i + 1], Head(items))])

\* the loop ended: self.save_undo_state(), unless the exception left the slot
delete_end(r) ==
    IF r.raised THEN [s |-> r.s, res |-> "error"]
    ELSE [s |-> save_undo_state(r.s), res |-> "ok"]

\* delete_item; selected_items is tree.selectedItems(), in the view's order
delete_item(s, selected_items) ==
    IF selected_items = <<>> THEN [s |-> s, res |-> "return"]
    ELSE delete_end(delete_loop(s, sorted_deepest_first(selected_items)))

delete_all_items(s) == save_undo_state(clear(s))

\* clone_item: the copy's page column is str(item.page()); the copy is built
\* outside the tree, so its addChild calls emit nothing
RECURSIVE clone_item(_)
\* clone_item without its for loop: the children are not copied
clone_without_children(item) ==
    [title |-> item.title, text |-> py_str(page(item.text)), children |-> <<>>]

clone_item(item) ==
    [title |-> item.title,
     text |-> py_str(page(item.text)),
     children |-> [i \in 1..Len(item.children) |-> clone_item(item.children[i])]]

\* move_item: the top-level and the nested branch do the same with the
\* top-level list resp. the parent's child list
\* item_clone = clone_item(item); take the item; insert the clone at
\* new_idx; make the clone the current item
move_to(s, item, parent, new_idx) ==
    IF 1 <= new_idx /\ new_idx <= Len(ChildrenAt(s.tree, parent))
    THEN setCurrentItem(
             insertItem(takeItem(s, item), parent, new_idx,
                        clone_item(NodeAt(s.tree, item))),
             Append(parent, new_idx))
    ELSE s

move_item(s, direction) ==
    IF s.cur = <<>> THEN s
    ELSE save_undo_state(
             move_to(s, s.cur, ParentOf(s.cur), PosOf(s.cur) + direction))

RECURSIVE setData(_, _, _, _)
setData(f, p, column, value) ==
    IF Len(p) = 1
    THEN IF column = 0 THEN [f EXCEPT ![p[1]].title = value]
         ELSE [f EXCEPT ![p[1]].text = value]
    ELSE [f EXCEPT ![Head(p)].children = setData(@, Tail(p), column, value)]

\* the user commits an edit of the current item's title (column 0) or page
\* (column 1): the item changes, then the itemChanged slot runs
edit_item(s, column, value) ==
    IF s.cur = <<>> THEN s
    ELSE itemChanged([s EXCEPT !.tree = setData(@, s.cur, column, value)])

\* the py_toc loop of save_pdf and save_pdf_as
RECURSIVE build_py_toc(_)
\* what one entry adds to py_toc: (level, title, start) for a range whose
\* two parts are integers, nothing for another text with "-" (except:
\* continue), (level, title, page) for an integer page
\* the loop body with a range branch that always ends in "continue"
py_toc_entry_no_range(level, title, pg) ==
    IF pg.k = "str" /\ Contains(pg.s, "-") THEN <<>>
    ELSE <<<<level.n, title, pg.n>>>>

py_toc_entry(level, title, pg) ==
    IF pg.k = "str" /\ Contains(pg.s, "-")
    THEN IF range_of_parts(split(pg.s, "-")).k = "str"
         THEN <<<<level.n, title, py_int(split(pg.s, "-")[1]).n>>>>
         ELSE <<>>
    ELSE <<<<level.n, title, pg.n>>>>

build_py_toc(toc) ==
    IF toc = <<>> THEN <<>>
    ELSE py_toc_entry(toc[1][1], toc[1][2], toc[1][3]) \o build_py_toc(Tail(toc))

\* save_pdf; ok tells whether set_toc and saveIncr succeed.  The result also
\* carries the outline handed to the PDF service.
save_pdf(s, ok) ==
    IF s.doc = None \/ s.pdf_path = None
    THEN [s |-> s, res |-> "return", py_toc |-> <<>>]
    ELSE [s |-> s, res |-> IF ok THEN "ok" ELSE "error",
          py_toc |-> build_py_toc(tree_to_toc(s.tree))]

\* save_pdf_as; choice is "cancel" (no path chosen), "ok", or "fail" (copying,
\* opening or saving the new file fails)
save_pdf_as(s, choice) ==
    IF s.doc = None \/ s.pdf_path = None
    THEN [s |-> s, res |-> "return", py_toc |-> <<>>]
    ELSE IF choice = "cancel" THEN [s |-> s, res |-> "return", py_toc |-> <<>>]
    ELSE [s |-> s, res |-> IF choice = "ok" THEN "ok" ELSE "error",
          py_toc |-> build_py_toc(tree_to_toc(s.tree))]

\* export_toc reads the tree and writes a file
export_toc(s, chosen) ==
    IF Len(s.tree) = 0 \/ ~chosen THEN [s |-> s, res |-> "return"]
    ELSE [s |-> s, res |-> "ok"]

\* a click on an item makes it the current item
click(s, p) == setCurrentItem(s, p)

(***************************************************************************)
(* Inputs.                                                                 *)
(***************************************************************************)
\* entry i of an input outline has title Titles[i] and page Pages[i]
Titles == <<"A", "A1", "B", "C", "D", "E">>
Pages == <<1, 2, 5, 7, 8, 9>>

\* levels as the PDF service returns them: the first is 1, each is at least 1
\* and at most one more than the one before
WellFormedLevels(ls) ==
    /\ ls # <<>> => ls[1] = 1
    /\ \A i \in 2..Len(ls) : 1 <= ls[i] /\ ls[i] <= ls[i - 1] + 1

\* the outlines doc.get_toc(simple=False) returns: [lvl, title, page, dest]
LoadTocs ==
    UNION { { [i \in 1..n |-> <<JInt(ls[i]), Titles[i], JInt(Pages[i]), "dest">>]
              : ls \in {x \in [1..n -> 1..n] : WellFormedLevels(x)} }
            : n \in 0..MaxNodes }

PdfFiles ==
    {[ok |-> FALSE, path |-> "bad.pdf", toc |-> <<>>]}
    \cup {[ok |-> TRUE, path |-> "a.pdf", toc |-> t] : t \in LoadTocs}

\* what entry i of an imported list can be: a triple with a level, or a
\* triple whose level is a string
ImportEntries(i) ==
    {<<JInt(l), Titles[i], JInt(Pages[i])>> : l \in 1..2}
    \cup {<<JStr(<<"a">>), Titles[i], JInt(Pages[i])>>}

\* the lists of n entries
RECURSIVE ImportListsOf(_)
ImportListsOf(n) ==
    IF n = 0 THEN {<<>>}
    ELSE {Append(es, e) : es \in ImportListsOf(n - 1), e \in ImportEntries(n)}

ImportLists == UNION {ImportListsOf(n) : n \in 0..MaxImportLen}

ImportFiles ==
    {[kind |-> "cancel", toc |-> JList(<<>>)],
     [kind |-> "unreadable", toc |-> JList(<<>>)],
     [kind |-> "json", toc |-> JNum(0)],
     [kind |-> "json", toc |-> JNum(5)]}
    \cup {[kind |-> "json", toc |-> JList(es)] : es \in ImportLists}

\* what the user types into a title resp. a page field
EditTitles == {"Z"}
EditTexts == {<<"7">>, <<"a">>, <<"1", "-", "2">>}

\* the orders in which selectedItems() may list a selection
Orders(S) ==
    {q \in [1..Cardinality(S) -> S] :
        \A i, j \in 1..Cardinality(S) : i # j => q[i] # q[j]}

(***************************************************************************)
(* The state machine.                                                      *)
(***************************************************************************)
St ==
    [tree |-> tree, cur |-> cur, undo_stack |-> undo_stack,
     redo_stack |-> redo_stack, is_restoring |-> is_restoring,
     pdf_path |-> pdf_path, doc |-> doc]

\* the input of a handler, as recorded: the file or the kind of insertion,
\* the direction of a move, the outline read, the items selected
NoArg == [kind |-> "", dir |-> 0, toc |-> JList(<<>>), sel |-> <<>>]

Init ==
    /\ tree = InitState.tree
    /\ cur = InitState.cur
    /\ undo_stack = InitState.undo_stack
    /\ redo_stack = InitState.redo_stack
    /\ is_restoring = InitState.is_restoring
    /\ pdf_path = InitState.pdf_path
    /\ doc = InitState.doc
    /\ steps = 0
    /\ op = "init"
    /\ arg = NoArg
    /\ res = "ok"
    /\ py_toc = <<>>
    /\ place = <<>>

\* the editor is in state s2 next
Becomes(s2) ==
    /\ tree' = s2.tree
    /\ cur' = s2.cur
    /\ undo_stack' = s2.undo_stack
    /\ redo_stack' = s2.redo_stack
    /\ is_restoring' = s2.is_restoring
    /\ pdf_path' = s2.pdf_path
    /\ doc' = s2.doc

\* the handler leaves the editor in state s2, the tree within the bound
Leaves(s2) == Count(s2.tree) <= MaxNodes /\ Becomes(s2)

\* handler `name` ran on input a and ended with r
Ran(name, a, r) ==
    /\ op' = name
    /\ arg' = a
    /\ res' = r
    /\ py_toc' = <<>>
    /\ place' = <<>>

LoadPdf ==
    \E file \in PdfFiles :
        \E r \in {load_pdf(St, file)} :
            Leaves(r.s)
            /\ Ran("load_pdf",
                   [NoArg EXCEPT !.kind = file.path, !.toc = JList(file.toc)], r.res)

ImportToc ==
    \E f \in ImportFiles :
        \E r \in {import_toc(St, f)} :
            Leaves(r.s)
            /\ Ran("import_toc", [NoArg EXCEPT !.kind = f.kind, !.toc = f.toc], r.res)

AddItem ==
    \E child \in BOOLEAN :
        \E s2 \in {add_item(St, child)} :
            Leaves(s2)
            /\ Ran("add_item", [NoArg EXCEPT !.kind = IF child THEN "child" ELSE "sibling"], "ok")

\* tree.selectedItems() is what the user selected with Ctrl+A (eventFilter
\* selects every item) and Ctrl+click (the view then deselects an item): any
\* set of items, listed in any order
DeleteItem ==
    \E S \in SUBSET Paths(tree) : \E order \in Orders(S) :
        \E r \in {delete_item(St, order)} :
            Leaves(r.s) /\ Ran("delete_item", [NoArg EXCEPT !.sel = order], r.res)

DeleteAllItems ==
    \E s2 \in {delete_all_items(St)} :
        Leaves(s2) /\ Ran("delete_all_items", NoArg, "ok")

MoveItem ==
    \E direction \in {-1, 1} :
        \E s2 \in {move_item(St, direction)} :
            Leaves(s2)
            /\ Ran("move_item", [NoArg EXCEPT !.dir = direction],
                   IF cur = <<>> THEN "return" ELSE "ok")

EditTitle ==
    /\ cur # <<>>
    /\ \E t \in EditTitles :
        \E s2 \in {edit_item(St, 0, t)} :
            Leaves(s2) /\ Ran("edit_title", NoArg, "ok")

EditPage ==
    /\ cur # <<>>
    /\ \E t \in EditTexts :
        \E s2 \in {edit_item(St, 1, t)} :
            Leaves(s2) /\ Ran("edit_page", NoArg, "ok")

Undo ==
    \E s2 \in {undo(St)} :
        Leaves(s2)
        /\ Ran("undo", NoArg, IF Len(undo_stack) < 2 THEN "return" ELSE "ok")

Redo ==
    \E s2 \in {redo(St)} :
        Leaves(s2)
        /\ Ran("redo", NoArg, IF redo_stack = <<>> THEN "return" ELSE "ok")

SavePdf ==
    \E ok \in BOOLEAN :
        \E r \in {save_pdf(St, ok)} :
            /\ Leaves(r.s)
            /\ op' = "save_pdf"
            /\ arg' = NoArg
            /\ res' = r.res
            /\ py_toc' = r.py_toc
            /\ place' = <<>>

SavePdfAs ==
    \E choice \in {"cancel", "ok", "fail"} :
        \E r \in {save_pdf_as(St, choice)} :
            /\ Leaves(r.s)
            /\ op' = "save_pdf_as"
            /\ arg' = NoArg
            /\ res' = r.res
            /\ py_toc' = r.py_toc
            /\ place' = <<>>

ExportToc ==
    \E chosen \in BOOLEAN :
        \E r \in {export_toc(St, chosen)} :
            Leaves(r.s) /\ Ran("export_toc", NoArg, r.res)

Click ==
    \E p \in Paths(tree) :
        \E s2 \in {click(St, p)} :
            Leaves(s2) /\ Ran("click", NoArg, "ok")

\* a handler runs while the session has steps left, and takes one
Step(A) == steps < MaxSteps /\ A /\ steps' = steps + 1

Next ==
    \/ Step(LoadPdf)
    \/ Step(ImportToc)
    \/ Step(AddItem)
    \/ Step(DeleteItem)
    \/ Step(DeleteAllItems)
    \/ Step(MoveItem)
    \/ Step(EditTitle)
    \/ Step(EditPage)
    \/ Step(Undo)
    \/ Step(Redo)
    \/ Step(SavePdf)
    \/ Step(SavePdfAs)
    \/ Step(ExportToc)
    \/ Step(Click)

Spec == Init /\ [][Next]_vars

(***************************************************************************)
(* The converter alone: populate_tree_from_toc run once, on a fresh        *)
(* editor, on a flat sequence.                                             *)
(***************************************************************************)
\* entry i of a flat sequence has title Titles[i] and page ConvPages[i]:
\* integers (-1 is the page PyMuPDF gives an entry without a target) and
\* "start-end" ranges
ConvPages ==
    <<JInt(1), JInt(-1), JStr(<<"3", "-", "7">>), JInt(12),
      JStr(<<"1", "0", "-", "2", "0">>), JInt(0)>>

\* entry i: a triple with any level up to MaxConvLevel, a triple whose level
\* is a string, or a list of two fields
ConvEntries(i) ==
    {<<JInt(l), Titles[i], ConvPages[i]>> : l \in 1..MaxConvLevel}
    \cup {<<JStr(<<"2">>), Titles[i], ConvPages[i]>>}
    \cup {<<JInt(1), Titles[i]>>}

\* the flat sequences of n entries
RECURSIVE ConvInputsOf(_)
ConvInputsOf(n) ==
    IF n = 0 THEN {<<>>}
    ELSE {Append(es, e) : es \in ConvInputsOf(n - 1), e \in ConvEntries(n)}

ConvInputs == UNION {ConvInputsOf(n) : n \in 0..MaxConvLen}

InitConv ==
    /\ tree = InitState.tree
    /\ cur = InitState.cur
    /\ undo_stack = InitState.undo_stack
    /\ redo_stack = InitState.redo_stack
    /\ is_restoring = InitState.is_restoring
    /\ pdf_path = InitState.pdf_path
    /\ doc = InitState.doc
    /\ steps = 0
    /\ op = "input"
    /\ \E es \in ConvInputs : arg = [NoArg EXCEPT !.toc = JList(es)]
    /\ res = "ok"
    /\ py_toc = <<>>
    /\ place = <<>>

Populate ==
    /\ op = "input"
    /\ \E r \in {populate_tree_from_toc(St, arg.toc)} :
        /\ Becomes(r.s)
        /\ op' = "populate_tree_from_toc"
        /\ res' = IF r.raised THEN "error" ELSE "ok"
        /\ place' = r.place
    /\ steps' = steps + 1
    /\ UNCHANGED <<arg, py_toc>>

NextConv == Populate

SpecConv == InitConv /\ [][NextConv]_vars

(***************************************************************************)
(* The page field alone: a document is open, the tree holds one item whose *)
(* page column holds a text the user typed, and the outline is saved.      *)
(***************************************************************************)
PageChars == {"1", "2", "-", "a", " ", "+"}

\* the texts of n characters
RECURSIVE TextsOf(_)
TextsOf(n) ==
    IF n = 0 THEN {<<>>}
    ELSE {Append(u, c) : u \in TextsOf(n - 1), c \in PageChars}

ExampleTexts ==
    {<<"5">>, <<"1", "0", "-", "2", "0">>, <<"a", "b", "c">>, <<"5", "-">>,
     <<"-", "5">>, <<"1", "-", "2", "-", "3">>}

PageTexts == ExampleTexts \cup UNION {TextsOf(n) : n \in 0..MaxTextLen}

InitPage ==
    /\ \E u \in PageTexts :
           tree = <<[title |-> "A", text |-> u, children |-> <<>>]>>
    /\ cur = <<1>>
    /\ undo_stack = <<tree_to_toc(tree)>>
    /\ redo_stack = <<>>
    /\ is_restoring = FALSE
    /\ pdf_path = "a.pdf"
    /\ doc = "a.pdf"
    /\ steps = 0
    /\ op = "input"
    /\ arg = NoArg
    /\ res = "ok"
    /\ py_toc = <<>>
    /\ place = <<>>

\* the outline is saved once
SaveOnce(A) == op = "input" /\ A /\ steps' = steps + 1

NextPage ==
    \/ SaveOnce(SavePdf)
    \/ SaveOnce(SavePdfAs)

SpecPage == InitPage /\ [][NextPage]_vars

(***************************************************************************)
(* Properties.                                                             *)
(***************************************************************************)
\* the editor after the step
StNext ==
    [tree |-> tree', cur |-> cur', undo_stack |-> undo_stack',
     redo_stack |-> redo_stack', is_restoring |-> is_restoring',
     pdf_path |-> pdf_path', doc |-> doc']

\* the handlers that change the outline
Mutations ==
    {"add_item", "delete_item", "delete_all_items", "move_item",
     "edit_title", "edit_page", "load_pdf", "import_toc"}

\* a text of one or more digits
NatText(t) == t # <<>> /\ \A i \in 1..Len(t) : IsDigit(t[i])

\* a "start-end" range
RangeText(t) ==
    \E j \in 1..Len(t) :
        /\ t[j] = "-"
        /\ NatText(SubSeq(t, 1, j - 1))
        /\ NatText(SubSeq(t, j + 1, Len(t)))

WellFormedPage(pg) == pg.k = "int" \/ (pg.k = "str" /\ RangeText(pg.s))

\* a well-formed flat sequence: triples, the first level 1, each level at
\* least 1 and at most one more than the one before, each page an integer or
\* a range
WellFormedFlat(F) ==
    /\ \A i \in 1..Len(F) :
        Len(F[i]) = 3 /\ F[i][1].k = "int" /\ WellFormedPage(F[i][3])
    /\ WellFormedLevels([i \in 1..Len(F) |-> F[i][1].n])

\* C1 (round trip): for every well-formed flat sequence F, the tree built by
\* populate_tree_from_toc(F) serialises with tree_to_toc() to exactly F.
C1_RoundTrip ==
    (op = "populate_tree_from_toc" /\ WellFormedFlat(arg.toc.items))
        => tree_to_toc(tree) = arg.toc.items

\* the entries before entry i that lie on the ancestor chain of entry i - 1
\* (entry i - 1 included) at the level one less than entry i's; an emitted
\* entry counts with the level it has in the tree (1 for a promoted entry)
ChainParents(F, pl, i) ==
    {j \in 1..(i - 1) : IsPrefix(pl[j], pl[i - 1]) /\ Len(pl[j]) = F[i][1].n - 1}

Latest(S) == CHOOSE j \in S : \A k \in S : k <= j

\* C2 (level reconstruction): in every flat sequence of triples with numbers
\* as levels, an entry of
\* level L > 1 is attached to the most recently emitted entry of level
\* exactly L - 1 on the ancestor chain of the entry right before it, and
\* becomes a top-level node when that chain has no entry of level L - 1; it
\* is never attached to a node outside that chain.
C2_LevelReconstruction ==
    (op = "populate_tree_from_toc"
     /\ \A i \in 1..Len(arg.toc.items) :
            Len(arg.toc.items[i]) = 3 /\ arg.toc.items[i][1].k = "int")
        => \A i \in 1..Len(arg.toc.items) :
               arg.toc.items[i][1].n > 1
                   => IF ChainParents(arg.toc.items, place, i) = {}
                      THEN Len(place[i]) = 1
                      ELSE ParentOf(place[i])
                               = place[Latest(ChainParents(arg.toc.items, place, i))]

\* C3 (undo floor): undo() run with fewer than 2 snapshots in undo_stack
\* changes neither the tree nor undo_stack nor redo_stack, and no undo()
\* empties a non-empty undo_stack.
C3_UndoFloor ==
    [][(op' = "undo")
         => /\ Len(undo_stack) < 2
                => (tree' = tree /\ undo_stack' = undo_stack
                    /\ redo_stack' = redo_stack)
            /\ undo_stack # <<>> => undo_stack' # <<>>]_vars

\* undo() has just run on a tree with items whose history holds one snapshot
C3_Witness ==
    op = "undo" /\ res = "return" /\ Len(undo_stack) = 1 /\ tree # <<>>

\* C4 (redo invalidation): a mutation that completes and changes the flat
\* form while undone snapshots are waiting in redo_stack leaves redo_stack
\* empty, so that a redo() right after it changes neither the tree nor
\* either stack.
C4_RedoInvalidation ==
    [][(redo_stack # <<>> /\ op' \in Mutations /\ res' = "ok"
        /\ tree_to_toc(tree') # tree_to_toc(tree))
         => (redo_stack' = <<>> /\ redo(StNext) = StNext)]_vars

\* C5 (history non-emptiness): once a load, an import or an edit has
\* completed, also one whose outline is empty, undo_stack holds a snapshot.
C5_HistoryNonEmpty ==
    (op \in Mutations /\ res = "ok") => undo_stack # <<>>

\* C6 (import is one history entry): a successful import_toc grows
\* undo_stack by at most one snapshot, every snapshot it records is the
\* fully imported outline, and one undo() right after an import that changed
\* the flat form restores the flat form from before the import (where the
\* history held that flat form on top).
C6_ImportOneEntry ==
    [][(op' = "import_toc" /\ res' = "ok")
         => /\ Len(undo_stack') <= Len(undo_stack) + 1
            /\ \A i \in (Len(undo_stack) + 1)..Len(undo_stack') :
                   undo_stack'[i] = tree_to_toc(tree')
            /\ (/\ undo_stack # <<>>
                /\ Last(undo_stack) = tree_to_toc(tree)
                /\ tree_to_toc(tree') # tree_to_toc(tree))
                => tree_to_toc(undo(StNext).tree) = tree_to_toc(tree)]_vars

\* C7 (failed import is non-destructive): when import_toc ends in its error
\* branch, the tree, undo_stack and redo_stack are what they were before.
C7_FailedImport ==
    [][(op' = "import_toc" /\ res' = "error")
         => (tree' = tree /\ undo_stack' = undo_stack
             /\ redo_stack' = redo_stack)]_vars

\* C8 (I/O failures are non-destructive): a load_pdf whose open fails leaves
\* pdf_path, doc, the tree and both stacks unchanged; a save_pdf or
\* save_pdf_as that fails, or runs with no document open, leaves the tree,
\* pdf_path and both stacks unchanged.
C8_IoFailures ==
    [][/\ (op' = "load_pdf" /\ res' = "error")
            => (pdf_path' = pdf_path /\ doc' = doc /\ tree' = tree
                /\ undo_stack' = undo_stack /\ redo_stack' = redo_stack)
       /\ (op' \in {"save_pdf", "save_pdf_as"} /\ res' \in {"error", "return"})
            => (tree' = tree /\ pdf_path' = pdf_path
                /\ undo_stack' = undo_stack /\ redo_stack' = redo_stack)]_vars

\* a load has just failed in a session with a document open, items in the
\* tree and snapshots in both stacks
C8_Witness ==
    /\ op = "load_pdf" /\ res = "error"
    /\ pdf_path # None /\ tree # <<>>
    /\ undo_stack # <<>> /\ redo_stack # <<>>

\* the outline a forest holds: each node's title, page and children
RECURSIVE View(_)
View(f) ==
    [i \in 1..Len(f) |->
        [title |-> f[i].title, page |-> page(f[i].text),
         children |-> View(f[i].children)]]

\* q with the elements at positions a and b exchanged
ExchangeAt(q, a, b) ==
    [i \in 1..Len(q) |-> IF i = a THEN q[b] ELSE IF i = b THEN q[a] ELSE q[i]]

\* the forest v with the node at p and its sibling d places on exchanged
RECURSIVE Exchanged(_, _, _)
Exchanged(v, p, d) ==
    IF Len(p) = 1 THEN ExchangeAt(v, p[1], p[1] + d)
    ELSE [v EXCEPT ![Head(p)].children = Exchanged(@, Tail(p), d)]

\* the node at p has a sibling d places on
HasSibling(f, p, d) ==
    /\ p # <<>>
    /\ 1 <= PosOf(p) + d
    /\ PosOf(p) + d <= Len(ChildrenAt(f, ParentOf(p)))

Example ==
    <<<<JInt(1), "A", JInt(1)>>, <<JInt(2), "A1", JInt(2)>>,
      <<JInt(1), "B", JInt(5)>>>>

ExampleMoved ==
    <<<<JInt(1), "B", JInt(5)>>, <<JInt(1), "A", JInt(1)>>,
      <<JInt(2), "A1", JInt(2)>>>>

\* C9 (move semantics): move_item(direction) on a node with a sibling in
\* that direction exchanges the two under their parent, the node's subtree
\* going with it, every node keeping its title, page and children otherwise;
\* moving B up in the loaded example gives [[1,B,5],[1,A,1],[2,A1,2]].
C9_MoveSemantics ==
    [][(op' = "move_item" /\ HasSibling(tree, cur, arg'.dir))
         => /\ View(tree') = Exchanged(View(tree), cur, arg'.dir)
            /\ (tree_to_toc(tree) = Example /\ cur = <<2>> /\ arg'.dir = -1)
                => tree_to_toc(tree') = ExampleMoved]_vars

\* B has just been moved up in the example, loaded before
C9_Witness ==
    /\ op = "move_item" /\ arg.dir = -1 /\ cur = <<1>>
    /\ tree_to_toc(tree) = ExampleMoved
    /\ \E i \in 1..Len(undo_stack) : undo_stack[i] = Example
    /\ pdf_path # None

\* the items a selection lists
Selected(order) == {order[i] : i \in 1..Len(order)}

\* the child list f (the children of the item at prefix), from position k on,
\* without the subtree of any item of S
RECURSIVE Pruned(_, _, _, _)
Pruned(f, prefix, S, k) ==
    IF k > Len(f) THEN <<>>
    ELSE (IF Append(prefix, k) \in S THEN <<>>
          ELSE <<[f[k] EXCEPT
                    !.children = Pruned(@, Append(prefix, k), S, 1)]>>)
         \o Pruned(f, prefix, S, k + 1)

\* C10 (deletion order independence): for any selection, listed in any
\* order, delete_item ends without error and leaves the forest without the
\* subtree of every selected node, the other nodes in place and in order.
C10_DeletionOrder ==
    [][(op' = "delete_item" /\ arg'.sel # <<>>)
         => (res' = "ok"
             /\ tree' = Pruned(tree, <<>>, Selected(arg'.sel), 1))]_vars

\* a selection listing a node before one of its descendants has just been
\* deleted, and other nodes are left
C10_Witness ==
    /\ op = "delete_item" /\ res = "ok" /\ tree # <<>>
    /\ \E i, j \in 1..Len(arg.sel) :
        i < j /\ arg.sel[i] # arg.sel[j] /\ IsPrefix(arg.sel[i], arg.sel[j])

\* the placeholder node add_item creates
NewNode == [title |-> "New Title", text |-> <<"1">>, children |-> <<>>]

\* the forest f with item as the new last child of the node at p (as the new
\* last top-level node for p = <<>>)
RECURSIVE AppendedUnder(_, _, _)
AppendedUnder(f, p, item) ==
    IF p = <<>> THEN Append(f, item)
    ELSE [f EXCEPT ![Head(p)].children = AppendedUnder(@, Tail(p), item)]

\* C11 (sibling insertion target), as stated: add_item(child=False) adds the
\* placeholder as a new top-level node, with nothing selected and with any
\* node selected, a nested one included; add_item(child=True) with a
\* selection appends it as the last child of the selected node.
C11_SiblingOnTop ==
    [][(op' = "add_item")
         => /\ arg'.kind = "sibling" => tree' = Append(tree, NewNode)
            /\ (arg'.kind = "child" /\ cur # <<>>)
                => tree' = AppendedUnder(tree, cur, NewNode)]_vars

\* C11, amended: add_item(child=False) appends the placeholder as the last
\* child of the selected node's parent, which is the top level when nothing
\* is selected or the selected node is a top-level node;
\* add_item(child=True) with a selection appends it as the last child of the
\* selected node.
C11_SiblingUnderParent ==
    [][(op' = "add_item")
         => /\ (arg'.kind = "sibling" /\ Len(cur) <= 1)
                => tree' = Append(tree, NewNode)
            /\ (arg'.kind = "sibling" /\ Len(cur) > 1)
                => tree' = AppendedUnder(tree, ParentOf(cur), NewNode)
            /\ (arg'.kind = "child" /\ cur # <<>>)
                => tree' = AppendedUnder(tree, cur, NewNode)]_vars

\* a sibling has just been added next to a nested node: the new node is the
\* current item, and it is nested
C11_Witness ==
    op = "add_item" /\ arg.kind = "sibling" /\ Len(cur) = 2

\* the text between the first and the last character of t that is no blank
Inner(t) ==
    IF \A i \in 1..Len(t) : t[i] = " " THEN <<>>
    ELSE SubSeq(t,
                CHOOSE i \in 1..Len(t) :
                    t[i] # " " /\ \A h \in 1..(i - 1) : t[h] = " ",
                CHOOSE j \in 1..Len(t) :
                    t[j] # " " /\ \A h \in (j + 1)..Len(t) : t[h] = " ")

\* the number the digits of t write, read from the left
RECURSIVE ValueFrom(_, _)
ValueFrom(t, acc) ==
    IF t = <<>> THEN acc ELSE ValueFrom(Tail(t), 10 * acc + DigitVal(Head(t)))

\* the integer literal t writes (blanks around it, a "+" before it allowed),
\* or -1 when t is no integer literal
LiteralOf(t) ==
    IF NatText(Inner(t)) THEN ValueFrom(Inner(t), 0)
    ELSE IF Inner(t) # <<>> /\ Head(Inner(t)) = "+" /\ NatText(Tail(Inner(t)))
    THEN ValueFrom(Tail(Inner(t)), 0)
    ELSE -1

\* the positions of "-" in t
Dashes(t) == {j \in 1..Len(t) : t[j] = "-"}

\* the canonical page of a display text: n for an integer literal n, a for
\* "a-b" with both halves integer literals, 1 for every other text
CanonicalPage(t) ==
    IF Dashes(t) = {} THEN (IF LiteralOf(t) >= 0 THEN LiteralOf(t) ELSE 1)
    ELSE IF \E j \in Dashes(t) :
               /\ Dashes(t) = {j}
               /\ LiteralOf(SubSeq(t, 1, j - 1)) >= 0
               /\ LiteralOf(SubSeq(t, j + 1, Len(t))) >= 0
    THEN LiteralOf(SubSeq(t, 1, (CHOOSE j \in Dashes(t) : TRUE) - 1))
    ELSE 1

\* a save has just handed an outline to the PDF service
Saved == op \in {"save_pdf", "save_pdf_as"} /\ res \in {"ok", "error"}

\* C12 (page parsing): the page persisted for a display text is n for an
\* integer literal n, the range start a for "a-b" with two integer halves,
\* and 1 for every other text; "5" gives 5, "10-20" gives 10, "abc" and
\* "5-" give 1; no text makes the parser fail.
C12_PageParsing ==
    Saved =>
        /\ py_toc = <<<<1, "A", CanonicalPage(tree[1].text)>>>>
        /\ tree[1].text = <<"5">> => py_toc[1][3] = 5
        /\ tree[1].text = <<"1", "0", "-", "2", "0">> => py_toc[1][3] = 10
        /\ tree[1].text \in {<<"a", "b", "c">>, <<"5", "-">>, <<"-", "5">>,
                             <<"1", "-", "2", "-", "3">>}
            => py_toc[1][3] = 1

\* the range "10-20" has just been saved
C12_Witness ==
    Saved /\ tree[1].text = <<"1", "0", "-", "2", "0">> /\ py_toc # <<>>

\* the outline of the forest f, whose top-level nodes have the given level:
\* one entry per node in pre-order, its level, title and canonical page
RECURSIVE Outline(_, _)
Outline(f, level) ==
    IF f = <<>> THEN <<>>
    ELSE <<<<level, Head(f).title, CanonicalPage(Head(f).text)>>>>
         \o Outline(Head(f).children, level + 1)
         \o Outline(Tail(f), level)

\* C13 (save is never blocked and never lossy in entries): for every
\* reachable tree the outline save_pdf / save_pdf_as hand to the PDF service
\* has exactly one entry per node, in pre-order, with the node's level and
\* title and the page the range start, the integer, or 1 for malformed text.
C13_SaveOutline ==
    Saved => (py_toc = Outline(tree, 1) /\ Len(py_toc) = Count(tree))

\* a tree with a nested node and with a page field holding a range or a
\* malformed text has just been saved
C13_Witness ==
    /\ Saved
    /\ \E p \in Paths(tree) : Len(p) = 2
    /\ \E q \in Paths(tree) :
        NodeAt(tree, q).text \in {<<"a">>, <<"1", "-", "2">>}

\* C14 (move boundary): move_item(-1) on the first node of a sibling list
\* and move_item(+1) on the last one, top-level or nested, leave the flat
\* form unchanged and change neither undo_stack nor redo_stack.
C14_MoveBoundary ==
    [][(op' = "move_item" /\ cur # <<>> /\ ~HasSibling(tree, cur, arg'.dir))
         => /\ tree_to_toc(tree') = tree_to_toc(tree)
            /\ undo_stack' = undo_stack
            /\ redo_stack' = redo_stack]_vars

\* move_item has just run on a nested node without siblings, with undone
\* snapshots waiting in redo_stack
C14_Witness ==
    /\ op = "move_item" /\ res = "ok"
    /\ Len(cur) = 2 /\ Len(ChildrenAt(tree, ParentOf(cur))) = 1
    /\ redo_stack # <<>>

\* the entries of F with at least 3 fields
WithFields(F) == SelectSeq(F, LAMBDA e : Len(e) >= 3)

\* C15 (converter totality): populate_tree_from_toc raises for no sequence of
\* entries; the forest has one node per entry with at least 3 fields, and it
\* is the forest built from those entries alone (a shorter entry is skipped
\* without moving the others).
C15_Totality ==
    op = "populate_tree_from_toc"
        => /\ res = "ok"
           /\ Count(tree) = Len(WithFields(arg.toc.items))
           /\ tree = populate_tree_from_toc(
                         InitState, JList(WithFields(arg.toc.items))).s.tree

\* what undo and redo are to restore of the editor s: the flat form of the
\* tree and the two stacks
History(s) == <<tree_to_toc(s.tree), s.undo_stack, s.redo_stack>>

\* C16 (undo/redo are inverse): in a state with at least 2 snapshots in
\* undo_stack, undo() followed by redo() restores the flat form, undo_stack
\* and redo_stack; with a non-empty redo_stack, redo() followed by undo()
\* restores all three.
C16_UndoRedoInverse ==
    /\ Len(undo_stack) >= 2 => History(redo(undo(St))) = History(St)
    /\ redo_stack # <<>> => History(undo(redo(St))) = History(St)

\* q back to front
RECURSIVE Reversed(_)
Reversed(q) == IF q = <<>> THEN <<>> ELSE Append(Reversed(Tail(q)), Head(q))

\* the editor with the restore guard set
Restoring == [St EXCEPT !.is_restoring = TRUE]

\* C17 (restore is never recorded): a save_undo_state call made while
\* is_restoring is true pushes nothing and leaves redo_stack alone; undo()
\* and redo() move at most one snapshot between the stacks, undo_stack
\* followed by the reversed redo_stack staying the same sequence, and
\* is_restoring is false when they have returned.
C17_RestoreNotRecorded ==
    [][(op' \in {"undo", "redo"})
         => /\ save_undo_state(Restoring) = Restoring
            /\ undo_stack' \o Reversed(redo_stack')
                   = undo_stack \o Reversed(redo_stack)
            /\ Len(undo_stack') - Len(undo_stack) \in {-1, 0, 1}
            /\ is_restoring' = FALSE]_vars

\* redo() has just rebuilt a tree of several nodes, with another undone
\* snapshot still waiting in redo_stack
C17_Witness ==
    /\ op = "redo" /\ res = "ok"
    /\ Count(tree) >= 2 /\ Len(undo_stack) >= 2 /\ redo_stack # <<>>

\* no two neighbours of the sequence q are equal
NoRepeat(q) == \A i \in 1..(Len(q) - 1) : q[i] # q[i + 1]

\* C18 (deduplicated history): no two adjacent snapshots of undo_stack are
\* equal, and a save_undo_state call made while the tree's flat form equals
\* the top of undo_stack changes neither stack.
C18_DeduplicatedHistory ==
    /\ NoRepeat(undo_stack)
    /\ (undo_stack # <<>> /\ Last(undo_stack) = tree_to_toc(tree))
           => save_undo_state(St) = St

\* undo() has put a snapshot on redo_stack and rebuilt the tree from the
\* new top of a history of several snapshots
C18_Witness ==
    /\ op = "undo" /\ res = "ok"
    /\ Len(undo_stack) >= 2 /\ redo_stack # <<>>
    /\ Last(undo_stack) = tree_to_toc(tree)

\* the handlers of which each invocation is meant to be one undo step
Operations == {"add_item", "delete_item", "delete_all_items", "move_item"}

\* C19 (one operation, one undo step): an add_item, delete_item,
\* delete_all_items or move_item that changes the tree appends exactly one
\* snapshot to undo_stack, the flat form of the tree after the operation,
\* and one undo() directly afterwards brings back the flat form the tree
\* had before it; no snapshot of a state in between is left in undo_stack.
C19_OneUndoStep ==
    [][(op' \in Operations /\ tree' # tree)
         => /\ undo_stack' = Append(undo_stack, tree_to_toc(tree'))
            /\ tree_to_toc(undo(StNext).tree) = tree_to_toc(tree)]_vars

\* the operations after which the history is meant to show the tree
Tracked ==
    {"load_pdf", "import_toc", "add_item", "delete_item", "delete_all_items",
     "move_item", "edit_title", "edit_page", "undo", "redo"}

\* C20 (history tracks the tree): after a completed load_pdf, import_toc,
\* add_item, delete_item, delete_all_items, move_item, field edit, undo or
\* redo, a non-empty undo_stack has the flat form of the current tree as
\* its top snapshot.
C20_HistoryTracksTree ==
    (op \in Tracked /\ undo_stack # <<>>)
        => Last(undo_stack) = tree_to_toc(tree)

====
